---- MODULE Spec2Model ----
(***************************************************************************)
(* Model of wireviz.parse(): the connection-row parser and linker of       *)
(* src/src/wireviz/wireviz.py.  One document is parsed: its 'connectors'   *)
(* and 'cables' sections are registered with the harness, then every row   *)
(* of 'connections' is validated (role alternation, item counts), turned   *)
(* into a connection list (with autogenerated connector instances) and     *)
(* wired by calls of harness.connect.                                      *)
(***************************************************************************)
EXTENDS Integers, Sequences, FiniteSets, TLC

VARIABLES
    yaml_data,          \* the deserialized document: its 'connectors' and 'cables' sections
    harness,            \* the Harness: the ids registered as connectors and as cables
    links,              \* the harness.connect() calls made for the current row, in order
    autogenerated_ids,  \* template id -> number of instances generated (0: no entry)
    connection,         \* the row being processed (<<>> before the first row)
    itemcount,          \* the row's item count (None or <<n>>)
    connection_list,    \* the row's connection list: one sublist of <<id, pin>> per item
    new_ids,            \* every new_id computed so far, in order, as <<template, n, new_id>>
    row_start,          \* harness connectors and autogenerated_ids when the current row
                        \* began (between two rows: as they are)
    rows,               \* number of rows taken from yaml_data['connections'] so far
    error,              \* the exception that ended the parse (NoError while none)
    pc                  \* position in parse(): "row", "populate", "connect", "connected",
                        \* "failed" (an exception left parse) or "done"

vars == <<yaml_data, harness, links, autogenerated_ids, connection, itemcount,
          connection_list, new_ids, row_start, rows, error, pc>>

----------------------------------------------------------------------------
(* Bounds of the model *)

\* rows in yaml_data['connections']
MaxRows == 2
\* items in one row
MaxRowLen == 3

----------------------------------------------------------------------------
(* Values *)

\* Python's None, for an optional value v held as <<v>>
None == <<>>

\* the three forms of a row item; a dict keeps its keys in insertion order
Str(id) == [type |-> "str", ids |-> <<id>>, pins |-> <<>>]
List(ids) == [type |-> "list", ids |-> ids, pins |-> <<>>]
Dict(keys, pins) == [type |-> "dict", ids |-> keys, pins |-> pins]

\* the terms of a pin specification: a single pin, or a range "a-b"
Pin(p) == [range |-> FALSE, a |-> p, b |-> p]
Range(a, b) == [range |-> TRUE, a |-> a, b |-> b]

\* an exception: its kind and, for the messages that name them, the id and the section
Error(kind, id, section) == [kind |-> kind, id |-> id, section |-> section]
NoError == Error("", "", "")

\* attributes of a declared component, as far as parse() reads them
Plain == [autogenerate |-> FALSE]
Template == [autogenerate |-> TRUE]

\* the 'connectors' and 'cables' sections the parsed document may have
PlainSections ==
    [connectors |-> [id \in {"X", "Y", "T"} |-> IF id = "T" THEN Template ELSE Plain],
     cables     |-> [id \in {"W"} |-> Plain]]

\* D is declared in both sections; the ids _T_1 and _T_3 are declared ones
OddSections ==
    [connectors |-> [id \in {"X", "Y", "T", "D", "_T_3"} |->
                        IF id = "T" THEN Template ELSE Plain],
     cables     |-> [id \in {"W", "D", "_T_1"} |-> Plain]]

\* D is an autogenerate template and is declared as a cable too
TwinSections ==
    [connectors |-> [id \in {"X", "Y", "D"} |-> IF id = "D" THEN Template ELSE Plain],
     cables     |-> [id \in {"W", "D"} |-> Plain]]

Sections == {PlainSections, OddSections, TwinSections}

\* the items a row is made of
Items ==
    { Str("X"), Str("T"), Str("W"), Str("D"),
      List(<<"X", "X">>), List(<<"T">>), List(<<"X", "Y", "X">>),
      Dict(<<"W">>, <<Range(1, 2)>>), Dict(<<"Y">>, <<Range(1, 2)>>),
      Dict(<<"T">>, <<Range(2, 1)>>), Dict(<<"X", "Y">>, <<Pin(1)>>) }

Connections == UNION { [1..n -> Items] : n \in 1..MaxRowLen }

----------------------------------------------------------------------------
(* wv_helper.expand: the pin-range expander *)

RECURSIVE Count(_, _)
\* the pins from a to b inclusive, ascending or descending
Count(a, b) ==
    IF a = b THEN <<a>>
    ELSE IF a < b THEN <<a>> \o Count(a + 1, b)
    ELSE <<a>> \o Count(a - 1, b)

RECURSIVE expand(_)
expand(spec) ==
    IF spec = <<>> THEN <<>>
    ELSE LET e == Head(spec)
         IN (IF e.range THEN Count(e.a, e.b) ELSE <<e.a>>) \o expand(Tail(spec))

----------------------------------------------------------------------------
(* Harness: the registry and the link sink *)

\* Harness.add_connector / add_cable over the document's sections (lines 49-63)
Register(data) ==
    [connectors |-> {id \in DOMAIN data.connectors : ~data.connectors[id].autogenerate},
     cables     |-> DOMAIN data.cables]

\* Harness.add_connector(name): DuplicateId when the id is already registered
add_connector(connectors, name) ==
    IF name \in connectors
    THEN [err |-> Error("DuplicateId", name, "connectors"), connectors |-> connectors]
    ELSE [err |-> NoError, connectors |-> connectors \cup {name}]

\* Harness.connect(from_name, from_pin, via_name, via_pin, to_name, to_pin)
connect(calls, from, via, to) ==
    Append(calls, [from |-> from, via |-> via, to |-> to])

----------------------------------------------------------------------------
(* parse(): first item and role check, lines 83-127 *)

alternating_sections == <<"connectors", "cables">>

\* x in yaml_data[section]
InSection(x, section) == x \in DOMAIN yaml_data[section]

\* first_item as a slip would have it: every row is taken to start with a connector
first_item_connector(conn) ==
    IF conn[1].ids = <<>> THEN [err |-> Error("IndexError", "", ""), index |-> 0]
    ELSE [err |-> NoError, index |-> 0]

\* lines 83-99: the index (0 connectors, 1 cables) of the first item's section
first_item(conn) ==
    IF conn[1].ids = <<>> THEN [err |-> Error("IndexError", "", ""), index |-> 0]
    ELSE LET id == conn[1].ids[1]
         IN IF InSection(id, "connectors") THEN [err |-> NoError, index |-> 0]
            ELSE IF InSection(id, "cables") THEN [err |-> NoError, index |-> 1]
            ELSE [err |-> Error("FirstItemNotFound", "", ""), index |-> 0]

\* flip as a slip would have it: the expected section never alternates
flip_stuck(expected_index) == expected_index

\* line 105: expected_index = 1 - expected_index
flip(expected_index) == 1 - expected_index

\* mismatch as a slip would have it: only a longer item is refused
mismatch_longer(count, itemcount_new) == count # None /\ itemcount_new > count[1]

\* line 123: itemcount is not None and itemcount_new != itemcount
mismatch(count, itemcount_new) == count # None /\ count # <<itemcount_new>>

RECURSIVE check_items(_, _, _, _)
\* lines 103-127: the loop over the row's items from item k on, entered with
\* the expected_index and itemcount left by the items before k
check_items(conn, k, expected_index, count) ==
    IF k > Len(conn)
    THEN IF count = None
         THEN [err |-> Error("NoItemcount", "", ""), itemcount |-> None]
         ELSE [err |-> NoError, itemcount |-> count]
    ELSE LET item     == conn[k]
             expected == flip(expected_index)
             section  == alternating_sections[expected + 1]
             raise(e) == [err |-> e, itemcount |-> count]
             missing  == {s \in 1..Len(item.ids) : ~InSection(item.ids[s], section)}
             first    == CHOOSE s \in missing : \A t \in missing : s <= t
             not_in(id) == raise(Error("NotInSection", id, section))
             length(n) ==
                 IF mismatch(count, n)
                 THEN raise(Error("LengthMismatch", "", ""))
                 ELSE check_items(conn, k + 1, expected, <<n>>)
         IN CASE item.type = "list" ->
                    IF missing # {} THEN not_in(item.ids[first])
                    ELSE length(Len(item.ids))
              [] item.type = "dict" ->
                    IF Len(item.ids) # 1 THEN raise(Error("OneKeyOnly", "", ""))
                    ELSE IF 1 \in missing THEN not_in(item.ids[1])
                    ELSE length(Len(expand(item.pins)))
              [] item.type = "str" ->
                    IF 1 \in missing THEN not_in(item.ids[1])
                    ELSE check_items(conn, k + 1, expected, count)

\* lines 83-127 for one row
validate(conn) ==
    LET first == first_item(conn)
    IN IF first.err # NoError THEN [err |-> first.err, itemcount |-> None]
       ELSE check_items(conn, 1, flip(first.index), None)

----------------------------------------------------------------------------
(* parse(): populate connection list, lines 130-162 *)

\* NewId as a slip would have it: the suffix is the count before the increment
NewId_before_increment(item, n) == "_" \o item \o "_" \o ToString(n - 1)

\* line 137 and 148: new_id = f'_{item}_{autogenerated_ids[item]}'
NewId(item, n) == "_" \o item \o "_" \o ToString(n)

\* lines 135-141 and 146-152: one entry of a sublist for the component id
entry(st, id) ==
    IF st.err # NoError THEN st
    ELSE IF id \notin DOMAIN yaml_data.connectors
    THEN [st EXCEPT !.err = Error("KeyError", id, "connectors")]
    ELSE IF yaml_data.connectors[id].autogenerate
    THEN LET n      == st.ids[id] + 1
             new_id == NewId(id, n)
             added  == add_connector(st.connectors, new_id)
         IN [st EXCEPT !.ids[id] = n,
                       !.new_ids = Append(@, <<id, n, new_id>>),
                       !.connectors = added.connectors,
                       !.err = added.err,
                       !.sublist = IF added.err = NoError THEN Append(@, <<new_id, 1>>) ELSE @]
    ELSE [st EXCEPT !.sublist = Append(@, <<id, 1>>)]

RECURSIVE entries(_, _)
\* a sublist with one entry for each id of the sequence ids, in order
entries(st, ids) ==
    IF ids = <<>> THEN st ELSE entries(entry(st, Head(ids)), Tail(ids))

\* lines 132-160: the sublist of one item
sublist_of(st, item, count) ==
    LET s == [st EXCEPT !.sublist = <<>>]
    IN CASE item.type = "str"  -> entries(s, [i \in 1..count |-> item.ids[1]])
         [] item.type = "list" -> entries(s, item.ids)
         [] item.type = "dict" ->
                LET pins == expand(item.pins)
                IN [s EXCEPT !.sublist = [p \in 1..Len(pins) |-> <<item.ids[1], pins[p]>>]]

RECURSIVE populate(_, _, _, _)
\* lines 130-162: the loop over the row's items from item k on
populate(st, conn, k, count) ==
    IF k > Len(conn) \/ st.err # NoError THEN st
    ELSE LET s == sublist_of(st, conn[k], count)
         IN populate(IF s.err # NoError THEN s
                     ELSE [s EXCEPT !.list = Append(@, s.sublist)],
                     conn, k + 1, count)

----------------------------------------------------------------------------
(* parse(): connect components using connection list, lines 165-183 *)

\* link as a slip would have it: the neighbours are read at their first position
link_first_position(calls, list, i, j) ==
    connect(calls,
            IF i = 1 THEN None ELSE list[i - 1][1],
            list[i][j],
            IF i = Len(list) THEN None ELSE list[i + 1][1])

\* lines 169-183: the connect() call for position j of sublist i
link(calls, list, i, j) ==
    connect(calls,
            IF i = 1 THEN None ELSE list[i - 1][j],
            list[i][j],
            IF i = Len(list) THEN None ELSE list[i + 1][j])

RECURSIVE link_item(_, _, _, _)
\* lines 168-183: the loop over the positions of sublist i from position j on;
\* indexing a neighbouring sublist beyond its end is an IndexError
link_item(st, list, i, j) ==
    IF j > Len(list[i]) THEN st
    ELSE IF \/ i > 1 /\ j > Len(list[i - 1])
            \/ i < Len(list) /\ j > Len(list[i + 1])
    THEN [st EXCEPT !.err = Error("IndexError", "", "")]
    ELSE link_item([st EXCEPT !.links = link(@, list, i, j)], list, i, j + 1)

RECURSIVE link_list(_, _, _, _)
\* lines 165-183: the loop over the sublists from sublist i on
link_list(st, cables, list, i) ==
    IF i > Len(list) \/ st.err # NoError THEN st
    ELSE IF list[i] = <<>> THEN [st EXCEPT !.err = Error("IndexError", "", "")]
    ELSE IF list[i][1][1] \in cables
    THEN link_list(link_item(st, list, i, 1), cables, list, i + 1)
    ELSE link_list(st, cables, list, i + 1)

----------------------------------------------------------------------------
(* The state machine *)

Init ==
    /\ yaml_data \in Sections
    /\ harness = Register(yaml_data)
    /\ links = <<>>
    /\ autogenerated_ids = [id \in DOMAIN yaml_data.connectors |-> 0]
    /\ connection = <<>>
    /\ itemcount = None
    /\ connection_list = <<>>
    /\ new_ids = <<>>
    /\ row_start = [connectors |-> harness.connectors, ids |-> autogenerated_ids]
    /\ rows = 0
    /\ error = NoError
    /\ pc = "row"

\* the next row of yaml_data['connections'] is taken and validated (lines 81-127)
Validate ==
    /\ pc = "row"
    /\ rows < MaxRows
    /\ \E conn \in Connections :
          LET v == validate(conn)
          IN /\ connection' = conn
             /\ itemcount' = v.itemcount
             /\ error' = v.err
             /\ pc' = IF v.err = NoError THEN "populate" ELSE "failed"
    /\ rows' = rows + 1
    /\ row_start' = [connectors |-> harness.connectors, ids |-> autogenerated_ids]
    /\ UNCHANGED <<yaml_data, harness, links, autogenerated_ids, connection_list, new_ids>>

\* the row's connection list is populated (lines 130-162)
Populate ==
    /\ pc = "populate"
    /\ LET st == populate([list |-> <<>>, sublist |-> <<>>, ids |-> autogenerated_ids,
                           connectors |-> harness.connectors, new_ids |-> new_ids,
                           err |-> NoError],
                          connection, 1, itemcount[1])
       IN /\ connection_list' = st.list
          /\ autogenerated_ids' = st.ids
          /\ harness' = [harness EXCEPT !.connectors = st.connectors]
          /\ new_ids' = st.new_ids
          /\ error' = st.err
          /\ pc' = IF st.err = NoError THEN "connect" ELSE "failed"
    /\ UNCHANGED <<yaml_data, links, connection, itemcount, row_start, rows>>

\* the row's components are connected (lines 165-183)
Connect ==
    /\ pc = "connect"
    /\ LET st == link_list([links |-> <<>>, err |-> NoError],
                           harness.cables, connection_list, 1)
       IN /\ links' = st.links
          /\ error' = st.err
          /\ pc' = IF st.err = NoError THEN "connected" ELSE "failed"
    /\ UNCHANGED <<yaml_data, harness, autogenerated_ids, connection, itemcount,
                   connection_list, new_ids, row_start, rows>>

\* back to line 81 for the next row: the finished row's locals are dead, every
\* one of them is assigned again (lines 81, 103, 130) before it is read
EndRow ==
    /\ pc = "connected"
    /\ pc' = "row"
    /\ connection' = <<>>
    /\ itemcount' = None
    /\ connection_list' = <<>>
    /\ links' = <<>>
    /\ row_start' = [connectors |-> harness.connectors, ids |-> autogenerated_ids]
    /\ UNCHANGED <<yaml_data, harness, autogenerated_ids, new_ids, rows, error>>

\* yaml_data['connections'] is exhausted (line 81)
Finish ==
    /\ pc = "row"
    /\ pc' = "done"
    /\ UNCHANGED <<yaml_data, harness, links, autogenerated_ids, connection, itemcount,
                   connection_list, new_ids, row_start, rows, error>>

Next == Validate \/ Populate \/ Connect \/ EndRow \/ Finish

Spec == Init /\ [][Next]_vars

----------------------------------------------------------------------------
(* Properties of a row *)

\* the row's item count once it is known
cardinality == itemcount[1]

\* the section index expected at position k of the row: the first item's
\* section, flipped once per position
ExpectedAt(conn, k) == (first_item(conn).index + (k - 1)) % 2

\* the positions of the row that sit at a cable position of its alternation
CablePositions(conn) == {k \in 1..Len(conn) : ExpectedAt(conn, k) = 1}

\* the slots whose component is registered as a cable
CableSlots == {i \in 1..Len(connection_list) : connection_list[i][1][1] \in harness.cables}

\* the link that slot i owes at position j
LinkOf(S, i, j) ==
    [from |-> IF i = 1 THEN None ELSE S[i - 1][j],
     via  |-> S[i][j],
     to   |-> IF i = Len(S) THEN None ELSE S[i + 1][j]]

\* C1: a processed row has made (slots at a cable position) x (itemcount) connect calls
C1_LinkCount ==
    pc = "connected" =>
        Len(links) = Cardinality(CablePositions(connection)) * cardinality

\* C2: in an accepted row the links are, slot by slot and position by position,
\* exactly one link per cable slot i and position j, from slot i-1 (None when
\* i is first) via slot i to slot i+1 (None when i is last), all at position j
C2_Links ==
    pc = "connected" =>
        /\ Len(links) = Cardinality(CableSlots) * cardinality
        /\ \A i \in CableSlots : \A j \in 1..cardinality :
              LET before == Cardinality({c \in CableSlots : c < i})
              IN links[before * cardinality + j] = LinkOf(connection_list, i, j)
        /\ (1 \in CableSlots) => \A q \in 1..cardinality : links[q].from = None
        /\ (Len(connection_list) \in CableSlots) =>
              \A q \in 1..cardinality : links[Len(links) - cardinality + q].to = None

\* a row that starts with a cable and one that ends with a cable have been linked
C2_Witness ==
    /\ pc = "connected"
    /\ connection = <<Dict(<<"W">>, <<Range(1, 2)>>), Dict(<<"T">>, <<Range(2, 1)>>),
                      Dict(<<"W">>, <<Range(1, 2)>>)>>
    /\ Len(links) = 4
    /\ links[2] = [from |-> None, via |-> <<"W", 2>>, to |-> <<"T", 1>>]
    /\ links[3] = [from |-> <<"T", 2>>, via |-> <<"W", 1>>, to |-> None]

\* rows of a cable W and a connector X, the cable first or the connector first
ScalarCableFirst == <<Str("W"), Str("X")>>
ScalarConnectorFirst == <<Str("X"), Str("W")>>
MappingCableFirst == <<Dict(<<"W">>, <<Range(1, 2)>>), Str("X")>>
MappingConnectorFirst == <<Str("X"), Dict(<<"W">>, <<Range(1, 2)>>)>>

\* C3 as claimed: the rows [cableA, connB] and [connB, cableA] of bare scalars
\* are both processed without raising
C3_ScalarRowsAccepted ==
    connection \in {ScalarCableFirst, ScalarConnectorFirst} => error = NoError

\* C3 amended: both bare-scalar rows pass the first-item inference (with opposite
\* starting roles) and the role check of every item, and fail only for want of an
\* item count; with the cable given as a one-key mapping both rows are processed
\* without raising, the first wired as a row that starts with a cable and the
\* second as a row that starts with a connector
C3_Alternation ==
    /\ connection = ScalarCableFirst =>
          first_item(connection).index = 1 /\ error = Error("NoItemcount", "", "")
    /\ connection = ScalarConnectorFirst =>
          first_item(connection).index = 0 /\ error = Error("NoItemcount", "", "")
    /\ connection = MappingCableFirst =>
          /\ first_item(connection).index = 1 /\ error = NoError
          /\ pc = "connected" =>
                links = <<[from |-> None, via |-> <<"W", 1>>, to |-> <<"X", 1>>],
                          [from |-> None, via |-> <<"W", 2>>, to |-> <<"X", 1>>]>>
    /\ connection = MappingConnectorFirst =>
          /\ first_item(connection).index = 0 /\ error = NoError
          /\ pc = "connected" =>
                links = <<[from |-> <<"X", 1>>, via |-> <<"W", 1>>, to |-> None],
                          [from |-> <<"X", 1>>, via |-> <<"W", 2>>, to |-> None]>>

\* the row that starts with the cable, given as a mapping, has been wired
C3_Witness == pc = "connected" /\ connection = MappingCableFirst /\ Len(links) = 2

\* C4: the row [[X, X], W, {Y: "1-2"}] is accepted with item count 2 and makes
\* the two links (X,1)-(W,1)-(Y,1) and (X,1)-(W,2)-(Y,2), in this order
C4_Scenario ==
    connection = <<List(<<"X", "X">>), Str("W"), Dict(<<"Y">>, <<Range(1, 2)>>)>> =>
        /\ error = NoError
        /\ itemcount = <<2>>
        /\ pc = "connected" =>
              links = <<[from |-> <<"X", 1>>, via |-> <<"W", 1>>, to |-> <<"Y", 1>>],
                        [from |-> <<"X", 1>>, via |-> <<"W", 2>>, to |-> <<"Y", 2>>]>>

\* a row of one mapping item among bare scalars
MappingAmongScalars(conn) ==
    \E m \in 1..Len(conn) :
        /\ conn[m].type = "dict"
        /\ \A k \in 1..Len(conn) : k # m => conn[k].type = "str"

\* the number of pins its mapping item expands to
MappingPins(conn) ==
    LET m == CHOOSE m \in 1..Len(conn) : conn[m].type = "dict"
    IN Len(expand(conn[m].pins))

\* id is an autogenerate template
IsTemplate(id) ==
    id \in DOMAIN yaml_data.connectors /\ yaml_data.connectors[id].autogenerate

\* C5: a validated row of a mapping of N pins among bare scalars has item count N,
\* and the slot of every scalar that is no template is N copies of (id, 1)
C5_ScalarSlots ==
    ( /\ pc \in {"connect", "connected", "failed"}
      /\ MappingAmongScalars(connection)
      /\ validate(connection).err = NoError ) =>
        /\ itemcount = <<MappingPins(connection)>>
        /\ \A k \in 1..Len(connection) :
              (connection[k].type = "str" /\ ~IsTemplate(connection[k].ids[1])) =>
                  /\ k <= Len(connection_list)
                  /\ connection_list[k] =
                        [j \in 1..MappingPins(connection) |-> <<connection[k].ids[1], 1>>]

----------------------------------------------------------------------------
(* Properties of the validation *)

\* the row names a first id
HasFirstId(conn) == conn # <<>> /\ conn[1].ids # <<>>

\* the role (0 connector, 1 cable) of the first item's id, and the role expected
\* at position k: the first item's role flipped k - 1 times
StartRole(conn) == IF conn[1].ids[1] \in DOMAIN yaml_data.connectors THEN 0 ELSE 1
RoleAt(conn, k) == (StartRole(conn) + (k - 1)) % 2

\* id is declared in the section of the role
DeclaredAs(id, role) ==
    IF role = 0 THEN id \in DOMAIN yaml_data.connectors ELSE id \in DOMAIN yaml_data.cables

\* the ids of the item that are not declared in the section expected at position k
\* (the elements of a list, the keys of a mapping, the scalar itself)
Misplaced(conn, k) ==
    {s \in 1..Len(conn[k].ids) : ~DeclaredAs(conn[k].ids[s], RoleAt(conn, k))}

\* a mapping of more than one key
ManyKeys(item) == item.type = "dict" /\ Len(item.ids) # 1

\* the items that contribute a count, and the count
Counted(item) == item.type \in {"list", "dict"}
CountOf(item) == IF item.type = "list" THEN Len(item.ids) ELSE Len(expand(item.pins))

\* two counted items before position k contribute different counts
CountsDifferBefore(conn, k) ==
    \E m1, m2 \in 1..(k - 1) :
        /\ Counted(conn[m1]) /\ Counted(conn[m2])
        /\ CountOf(conn[m1]) # CountOf(conn[m2])

RoleErrors == {"NotInSection", "FirstItemNotFound"}

\* every item of the row names an id, and every mapping has one key
Ordinary(conn) ==
    /\ conn # <<>>
    /\ \A k \in 1..Len(conn) : conn[k].ids # <<>> /\ ~ManyKeys(conn[k])

\* the row [A, B, C] of the three connectors T, X and Y, all declared
ThreeConnectors ==
    /\ connection = <<Str("T"), Str("X"), Dict(<<"Y">>, <<Range(1, 2)>>)>>
    /\ \A id \in {"T", "X", "Y"} : DeclaredAs(id, 0)

\* C6 as claimed: a row of one-key mappings, lists and scalars in which some item
\* names an id that is not declared in the section expected at its position
\* fails with a role-alternation error
C6_AlwaysRoleError ==
    ( /\ Ordinary(connection)
      /\ \E k \in 1..Len(connection) : Misplaced(connection, k) # {} ) =>
        error.kind \in RoleErrors

\* C6 amended: such a row fails without any effect, and with the role-alternation
\* error naming the first misplaced id unless an earlier item has raised first (a
\* mapping of several keys at or before it, different counts before it); the row
\* [A, B, C] of three connectors fails at B
C6_RoleCheck ==
    /\ HasFirstId(connection) =>
          \A k \in 1..Len(connection) : \A s \in Misplaced(connection, k) :
              ( /\ \A m \in 1..(k - 1) : Misplaced(connection, m) = {}
                /\ \A t \in Misplaced(connection, k) : s <= t ) =>
                  /\ pc = "failed"
                  /\ links = <<>> /\ connection_list = <<>>
                  /\ harness.connectors = row_start.connectors
                  /\ autogenerated_ids = row_start.ids
                  /\ IF \/ \E m \in 1..k : ManyKeys(connection[m])
                        \/ CountsDifferBefore(connection, k)
                     THEN error.kind \in {"OneKeyOnly", "LengthMismatch"}
                     ELSE IF /\ k = 1 /\ s = 1
                             /\ ~DeclaredAs(connection[1].ids[1], 0)
                             /\ ~DeclaredAs(connection[1].ids[1], 1)
                     THEN error = Error("FirstItemNotFound", "", "")
                     ELSE error = Error("NotInSection", connection[k].ids[s],
                                        alternating_sections[RoleAt(connection, k) + 1])
    /\ ThreeConnectors => error = Error("NotInSection", "X", "cables")

\* the row [A, B, C] has failed at B
C6_Witness ==
    /\ pc = "failed"
    /\ ThreeConnectors
    /\ error = Error("NotInSection", "X", "cables")

\* item k contributes a count that differs from the one fixed by the first
\* counted item of the row
OffCount(conn, k) ==
    /\ Counted(conn[k])
    /\ \E m \in 1..(k - 1) :
          /\ Counted(conn[m])
          /\ \A n \in 1..(m - 1) : ~Counted(conn[n])
          /\ CountOf(conn[m]) # CountOf(conn[k])

\* in an accepted row every slot is as long as the item count
SameLength ==
    pc \in {"connect", "connected"} =>
        /\ Len(connection_list) = Len(connection)
        /\ \A i \in 1..Len(connection_list) : Len(connection_list[i]) = cardinality

\* C7 as claimed, read in its weakest sense (every id of the row passes the role
\* check): a later list or mapping item whose count differs from the first one's
\* makes the row fail with the count-mismatch error
C7_AlwaysMismatchError ==
    /\ ( /\ HasFirstId(connection)
         /\ \A k \in 1..Len(connection) : Misplaced(connection, k) = {}
         /\ \E k \in 1..Len(connection) : OffCount(connection, k) ) =>
           error = Error("LengthMismatch", "", "")
    /\ SameLength

\* C7 amended: it does so when no item up to it raises first, that is when the
\* first item names an id, no item up to it is misplaced and none is a mapping of
\* several keys; and in every accepted row all slots have the item count's length
C7_Mismatch ==
    /\ ( /\ HasFirstId(connection)
         /\ \E k \in 1..Len(connection) :
               /\ OffCount(connection, k)
               /\ \A m \in 1..k : Misplaced(connection, m) = {} /\ ~ManyKeys(connection[m]) ) =>
           /\ error = Error("LengthMismatch", "", "")
           /\ pc = "failed"
    /\ SameLength

\* a 2-pin mapping followed by a 3-element list has failed with the count mismatch
C7_Witness ==
    /\ pc = "failed"
    /\ connection = <<Dict(<<"W">>, <<Range(1, 2)>>), List(<<"X", "Y", "X">>)>>
    /\ error = Error("LengthMismatch", "", "")

----------------------------------------------------------------------------
(* Properties of the autogeneration and of the registry *)

\* the number of instances of the template among the first p generated ids
InstancesUpTo(template, p) == Cardinality({q \in 1..p : new_ids[q][1] = template})

\* the ids of the connection list that come from a scalar or list entry naming a
\* template, item by item and position by position
RECURSIVE InstancesIn(_, _, _)
InstancesIn(conn, list, i) ==
    IF i > Len(list) THEN <<>>
    ELSE LET here == IF conn[i].type = "dict" THEN <<>>
                     ELSE LET source(j) == IF conn[i].type = "str" THEN conn[i].ids[1]
                                           ELSE conn[i].ids[j]
                              at == {j \in 1..Len(list[i]) : IsTemplate(source(j))}
                          IN [n \in 1..Cardinality(at) |->
                                 list[i][CHOOSE j \in at :
                                             Cardinality({h \in at : h <= j}) = n][1]]
         IN here \o InstancesIn(conn, list, i + 1)

\* the number of ids generated before the current row began
GeneratedBefore ==
    LET RECURSIVE Sum(_)
        Sum(S) == IF S = {} THEN 0
                  ELSE LET t == CHOOSE t \in S : TRUE
                       IN row_start.ids[t] + Sum(S \ {t})
    IN Sum(DOMAIN row_start.ids)

\* C8: the k-th instance of a template T, counted over all rows, gets the id _T_k
\* and is registered under it; no id is generated twice; the counter of T is the
\* number of its instances; the ids of a row are generated item by item and
\* position by position
C8_Autogenerated ==
    /\ \A p \in 1..Len(new_ids) :
          LET template == new_ids[p][1]
              k == InstancesUpTo(template, p)
          IN /\ yaml_data.connectors[template].autogenerate
             /\ new_ids[p][2] = k
             /\ new_ids[p][3] = "_" \o template \o "_" \o ToString(k)
             /\ new_ids[p][3] \in harness.connectors
    /\ \A p, q \in 1..Len(new_ids) : p # q => new_ids[p][3] # new_ids[q][3]
    /\ \A t \in DOMAIN autogenerated_ids :
          autogenerated_ids[t] = InstancesUpTo(t, Len(new_ids))
    /\ pc \in {"connect", "connected"} =>
          InstancesIn(connection, connection_list, 1) =
              [n \in 1..(Len(new_ids) - GeneratedBefore) |-> new_ids[GeneratedBefore + n][3]]

\* a second row has gone on numbering the instances of T where the first row stopped
C8_Witness ==
    /\ pc = "connected"
    /\ rows = 2
    /\ connection = <<Str("T"), Dict(<<"W">>, <<Range(1, 2)>>)>>
    /\ row_start.ids["T"] = 2
    /\ connection_list[1] = <<<<"_T_3", 1>>, <<"_T_4", 1>>>>
    /\ [p \in 1..Len(new_ids) |-> new_ids[p][3]] = <<"_T_1", "_T_2", "_T_3", "_T_4">>

\* the registry in which the role (0 connector, 1 cable) is registered
Registered(role) == IF role = 0 THEN harness.connectors ELSE harness.cables

\* C9: every component id carried by a link of the row (the entries of a linking
\* slot and of its neighbours) is registered in the harness under the role expected
\* at its position
C9_LinkedIdsRegistered ==
    pc = "connected" =>
        \A i \in CableSlots : \A n \in {i - 1, i, i + 1} \cap (1..Len(connection_list)) :
            \A j \in 1..Len(connection_list[n]) :
                connection_list[n][j][1] \in Registered(ExpectedAt(connection, n))

\* C10: a row that fails has made no link, registered no connector and left the
\* counters as they were when it began
C10_FailedRowHasNoEffect ==
    pc = "failed" =>
        /\ links = <<>>
        /\ harness.connectors = row_start.connectors
        /\ autogenerated_ids = row_start.ids

====
